---- MODULE Spec2Model ----
(***************************************************************************)
(* A model of grizzly's workflow: the one-shot reconciler operations Diff  *)
(* and Apply over a resource list, the UID addressing of Get and Listen,   *)
(* and the publish handler of the Listen loop.                             *)
(*                                                                         *)
(* Strings that the code splits or counts (UIDs, handler names, resource   *)
(* ids) are sequences of one-character strings.                            *)
(***************************************************************************)
EXTENDS Integers, Sequences, FiniteSets, TLC

VARIABLES
    resources,  \* the Resources slice handed to Diff / Apply
    remote,     \* the remote endpoint: key -> stored spec, or Absent
    op,         \* the one-shot operation in progress or last finished
    i,          \* position of the range loop in resources (1-based)
    status,     \* "running", or how the operation returned: "nil" / "err"
    retErr,     \* the error value returned (code "none" when nil)
    trace,      \* the calls this run made, in order: registry, handler,
                \* representation and Notifier calls
    prev,       \* summary of the run before this one, when it was an Apply
                \* and nobody else has changed the remote since it started
    dirty,      \* somebody else changed the remote since this run started
    expires,    \* opts.ExpiresSeconds of a Preview run
    uidArg,     \* the UID argument of Get / Listen
    target,     \* handlerName and resourceID that Get / Listen resolved
    sub,        \* the resource id whose channel Listen subscribed to
    file,       \* content of the file Listen was given
    conn,       \* state of the push connection
    input,      \* what the parsing pipeline was given
    files,      \* the export directory: its sub-directories and files
    watch,      \* where the Watch function is
    loop,       \* where Watch's event-handling goroutine is
    events,     \* file events waiting on watcher.Events
    closed,     \* the watcher's channels are closed
    wlog        \* what the goroutine received so far, and what it did

reconVars == <<resources, i, prev, dirty, expires>>
listenVars == <<uidArg, target, sub, file, conn>>
parseVars == <<input>>
exportVars == <<files>>
watchVars == <<watch, loop, events, closed, wlog>>
moreVars == <<parseVars, exportVars, watchVars>>
vars == <<remote, op, status, retErr, trace, reconVars, listenVars, moreVars>>

-----------------------------------------------------------------------------
(* Bounds of the model *)

MaxRes == 2      \* longest resource list
MaxUIDLen == 5   \* longest UID string given to Get / Listen

-----------------------------------------------------------------------------
(* Registry and handlers *)

GenericName == <<"g">>
DashboardName == <<"g", ".", "d">>
UnknownName == <<"x">>

\* Registry: handler name -> Handler implementation.
Registry ==
    [n \in {GenericName, DashboardName} |->
        IF n = DashboardName THEN "dashboard" ELSE "generic"]

\* Registry.GetHandler(name): exact lookup, error when absent.
GetHandler(name) ==
    IF name \in DOMAIN Registry
    THEN [ok |-> TRUE, handler |-> Registry[name]]
    ELSE [ok |-> FALSE, handler |-> "none"]

\* The declared contents a spec can have.
Bodies == {"v1", "v2"}
ResourceIDs == {<<"a">>, <<"d">>}

\* A spec (Detail) is a declared body plus a server-assigned field; id = 0
\* means the field is not set.
Specs == [body : Bodies, id : {0, 1}]
Absent == [body |-> "absent", id |-> 0]

Res(k, u, b) == [kind |-> k, uid |-> u, spec |-> [body |-> b, id |-> 0]]

\* The locally declared resources a list is drawn from: two bodies under one
\* key for each registered handler, and one resource of an unregistered kind.
LocalResources ==
    {Res(GenericName, <<"a">>, b) : b \in Bodies}
        \cup {Res(DashboardName, <<"d">>, b) : b \in Bodies}
        \cup {Res(UnknownName, <<"a">>, "v1")}

Key(resource) == <<resource.kind, resource.uid>>
Keys == {<<n, u>> : n \in DOMAIN Registry, u \in ResourceIDs}

ResourceLists == UNION {[1 .. n -> LocalResources] : n \in 0 .. MaxRes}

\* DashboardHandler.Unprepare / Prepare return the resource unchanged.
DashboardUnprepare(resource) == resource
DashboardPrepare(existing, resource) == resource

\* A handler with server-assigned fields strips them for comparison and
\* merges them into the local resource before dispatch.
GenericUnprepare(resource) ==
    [resource EXCEPT !.spec = [@ EXCEPT !.id = 0]]
GenericPrepare(existing, resource) ==
    [resource EXCEPT !.spec = [@ EXCEPT !.id = existing.spec.id]]

Unprepare(h, resource) ==
    IF h = "dashboard" THEN DashboardUnprepare(resource)
    ELSE GenericUnprepare(resource)

Prepare(h, existing, resource) ==
    IF h = "dashboard" THEN DashboardPrepare(existing, resource)
    ELSE GenericPrepare(existing, resource)

\* resource.YAML(): the serialized manifest of a resource.
YAML(resource) ==
    <<"kind", resource.kind, "name", resource.uid,
      "body", resource.spec.body, "id", resource.spec.id>>

\* What the endpoint keeps for a pushed resource: the body as sent; the
\* server-assigned field is set by the server for handlers that have one.
Stored(h, resource) ==
    [body |-> resource.spec.body, id |-> IF h = "dashboard" THEN 0 ELSE 1]

-----------------------------------------------------------------------------
(* Results, calls and notifications *)

NoErr == [code |-> "none", kind |-> <<>>, uid |-> <<>>]
\* An error handed back by a handler or by YAML(), returned as it is.
PlainErr(code) == [code |-> code, kind |-> <<>>, uid |-> <<>>]
\* fmt.Errorf("Error retrieving resource from %s %s: %v", kind, uid, err)
RetrieveErr(resource) ==
    [code |-> "retrieve", kind |-> resource.kind, uid |-> resource.uid]

\* One call made while resources[idx] is processed: what was called, how it
\* came back, and the spec it returned or was given.
Call(fn, idx, res, val) == [fn |-> fn, idx |-> idx, res |-> res, val |-> val]
\* A Notifier call for resources[idx].
Event(ev, idx, val) == Call(ev, idx, "notify", val)

\* What one pass of a loop body leaves behind: how the loop goes on
\* ("continue", or the function returns "nil" / "err"), the remote after it,
\* and the calls it made.
Out(next, err, rem, tr) ==
    [next |-> next, err |-> err, remote |-> rem, trace |-> tr]

\* Outcomes of a call that the endpoint or the serializer, not the code,
\* decides.
Faults == {"none", "fetch", "add", "update", "yamlLocal", "yamlRemote", "preview"}

\* handler.GetRemote(resource): ErrNotFound when the endpoint does not hold
\* the resource, another error when the call fails, else the stored resource.
GetRemote(rem, resource, fault) ==
    IF fault = "fetch" THEN [err |-> "err", resource |-> resource]
    ELSE IF Key(resource) \notin DOMAIN rem \/ rem[Key(resource)] = Absent
         THEN [err |-> "notfound", resource |-> resource]
         ELSE [err |-> "ok",
               resource |-> [resource EXCEPT !.spec = rem[Key(resource)]]]

\* handler.Add / handler.Update: the endpoint stores the pushed resource.
Add(rem, h, resource) ==
    [rem EXCEPT ![Key(resource)] = Stored(h, resource)]
Update(rem, h, existing, resource) ==
    [rem EXCEPT ![Key(resource)] = Stored(h, resource)]

-----------------------------------------------------------------------------
(* Apply *)

\* Mutant of ApplyNotFound: the Added notification is left out.
ApplyNotFoundNoNotify(rem, h, resource, idx, fault) ==
    IF fault = "add"
    THEN Out("err", PlainErr("add"), rem,
             <<Call("Add", idx, "err", resource.spec)>>)
    ELSE Out("continue", NoErr, Add(rem, h, resource),
             <<Call("Add", idx, "ok", resource.spec)>>)

\* Apply, the ErrNotFound branch: Add, then Added, then the next resource.
ApplyNotFound(rem, h, resource, idx, fault) ==
    IF fault = "add"
    THEN Out("err", PlainErr("add"), rem,
             <<Call("Add", idx, "err", resource.spec)>>)
    ELSE Out("continue", NoErr, Add(rem, h, resource),
             <<Call("Add", idx, "ok", resource.spec),
               Event("Added", idx, resource.spec)>>)

\* Mutant of ApplyLocalRepresentation: the representation is taken after
\* Prepare instead of before it.
ApplyLocalRepresentationPrepared(h, existing, resource) ==
    YAML(Prepare(h, existing, resource))

\* Apply: the representation of the local resource that is compared; it is
\* taken before Prepare.
ApplyLocalRepresentation(h, existing, resource) == YAML(resource)

\* Mutant of ApplyExistingRepresentation: Unprepare is left out.
ApplyExistingRepresentationRaw(h, existing) == YAML(existing)

\* Apply: the representation of the remote resource that is compared.
ApplyExistingRepresentation(h, existing) == YAML(Unprepare(h, existing))

\* Mutant of ApplySame: the test is inverted.
ApplySameInverted(resourceRepresentation, existingResourceRepresentation) ==
    resourceRepresentation # existingResourceRepresentation

\* Apply: the test that decides between NoChanges and Update.
ApplySame(resourceRepresentation, existingResourceRepresentation) ==
    resourceRepresentation = existingResourceRepresentation

\* Mutant of ApplyUpdate: a failed Update is not returned, the loop goes on.
ApplyUpdateSwallowsError(rem, h, existing, resource, idx, fault) ==
    IF fault = "update"
    THEN Out("continue", NoErr, rem,
             <<Call("Update", idx, "err", resource.spec)>>)
    ELSE Out("continue", NoErr, Update(rem, h, existing, resource),
             <<Call("Update", idx, "ok", resource.spec),
               Event("Updated", idx, resource.spec)>>)

\* Apply, the unequal branch: Update, then Updated.
ApplyUpdate(rem, h, existing, resource, idx, fault) ==
    IF fault = "update"
    THEN Out("err", PlainErr("update"), rem,
             <<Call("Update", idx, "err", resource.spec)>>)
    ELSE Out("continue", NoErr, Update(rem, h, existing, resource),
             <<Call("Update", idx, "ok", resource.spec),
               Event("Updated", idx, resource.spec)>>)

\* Apply, the part of the loop body that runs when the remote resource exists.
ApplyFound(rem, h, existing, resource, idx, fault) ==
    IF fault = "yamlLocal"
    THEN Out("err", PlainErr("yaml"), rem,
             <<Call("YAML", idx, "err", resource.spec)>>)
    ELSE
    LET resourceRepresentation == ApplyLocalRepresentation(h, existing, resource)
        prepared == Prepare(h, existing, resource)
        unprepared == Unprepare(h, existing)
        existingResourceRepresentation == ApplyExistingRepresentation(h, existing)
        tr == <<Call("YAML", idx, "ok", resource.spec),
                Call("Prepare", idx, "ok", prepared.spec),
                Call("Unprepare", idx, "ok", unprepared.spec)>>
    IN  IF fault = "yamlRemote"
        THEN Out("nil", NoErr, rem,
                 tr \o <<Call("YAML", idx, "err", unprepared.spec)>>)
        ELSE
        LET tr2 == tr \o <<Call("YAML", idx, "ok", unprepared.spec),
                           Call("Compare", idx, "ok", prepared.spec)>>
        IN  IF ApplySame(resourceRepresentation, existingResourceRepresentation)
            THEN Out("continue", NoErr, rem,
                     tr2 \o <<Event("NoChanges", idx, prepared.spec)>>)
            ELSE LET u == ApplyUpdate(rem, h, unprepared, prepared, idx, fault)
                 IN  [u EXCEPT !.trace = tr2 \o @]

\* An outcome with the calls tr made before it.
After(tr, out) == [out EXCEPT !.trace = tr \o @]

\* Apply, one pass of the loop body for resources[idx].
ApplyResource(rem, resource, idx, fault) ==
    LET got == GetHandler(resource.kind) IN
    IF ~got.ok
    THEN Out("nil", NoErr, rem, <<Call("GetHandler", idx, "err", resource.spec)>>)
    ELSE
    LET h == got.handler
        fetched == GetRemote(rem, resource, fault)
        tr == <<Call("GetHandler", idx, "ok", resource.spec),
                Call("GetRemote", idx, fetched.err, fetched.resource.spec)>>
    IN  IF fetched.err = "notfound"
        THEN After(tr, ApplyNotFound(rem, h, resource, idx, fault))
        ELSE IF fetched.err # "ok"
        THEN Out("err", PlainErr("fetch"), rem, tr)
        ELSE After(tr, ApplyFound(rem, h, fetched.resource, resource, idx, fault))

-----------------------------------------------------------------------------
(* Diff *)

\* Mutant of DiffFetched: every fetch error is handled like ErrNotFound.
DiffFetchedSkipsErrors(rem, h, local, fetched, resource, idx, fault) ==
    IF fetched.err # "ok"
    THEN Out("continue", NoErr, rem, <<Event("NotFound", idx, resource.spec)>>)
    ELSE
    LET remoteResource == Unprepare(h, fetched.resource)
        remoteRepresentation == YAML(remoteResource)
        tr == <<Call("Unprepare", idx, "ok", remoteResource.spec)>>
    IN  IF fault = "yamlRemote"
        THEN Out("err", PlainErr("yaml"), rem,
                 tr \o <<Call("YAML", idx, "err", remoteResource.spec)>>)
        ELSE
        LET tr2 == tr \o <<Call("YAML", idx, "ok", remoteResource.spec),
                           Call("Compare", idx, "ok", resource.spec)>>
        IN  IF local = remoteRepresentation
            THEN Out("continue", NoErr, rem,
                     tr2 \o <<Event("NoChanges", idx, resource.spec)>>)
            ELSE Out("continue", NoErr, rem,
                     tr2 \o <<Event("HasChanges", idx, resource.spec)>>)

\* Diff, the part of the loop body after the remote fetch.
DiffFetched(rem, h, local, fetched, resource, idx, fault) ==
    IF fetched.err = "notfound"
    THEN Out("continue", NoErr, rem, <<Event("NotFound", idx, resource.spec)>>)
    ELSE IF fetched.err # "ok"
    THEN Out("err", RetrieveErr(resource), rem, <<>>)
    ELSE
    LET remoteResource == Unprepare(h, fetched.resource)
        remoteRepresentation == YAML(remoteResource)
        tr == <<Call("Unprepare", idx, "ok", remoteResource.spec)>>
    IN  IF fault = "yamlRemote"
        THEN Out("err", PlainErr("yaml"), rem,
                 tr \o <<Call("YAML", idx, "err", remoteResource.spec)>>)
        ELSE
        LET tr2 == tr \o <<Call("YAML", idx, "ok", remoteResource.spec),
                           Call("Compare", idx, "ok", resource.spec)>>
        IN  IF local = remoteRepresentation
            THEN Out("continue", NoErr, rem,
                     tr2 \o <<Event("NoChanges", idx, resource.spec)>>)
            ELSE Out("continue", NoErr, rem,
                     tr2 \o <<Event("HasChanges", idx, resource.spec)>>)

\* Mutant of DiffResource: Diff brings the remote in line as Apply does.
DiffResourceApplies(rem, resource, idx, fault) ==
    ApplyResource(rem, resource, idx, fault)

\* Diff, one pass of the loop body for resources[idx].
DiffResource(rem, resource, idx, fault) ==
    LET got == GetHandler(resource.kind) IN
    IF ~got.ok
    THEN Out("nil", NoErr, rem, <<Call("GetHandler", idx, "err", resource.spec)>>)
    ELSE IF fault = "yamlLocal"
    THEN Out("nil", NoErr, rem,
             <<Call("GetHandler", idx, "ok", resource.spec),
               Call("YAML", idx, "err", resource.spec)>>)
    ELSE
    LET h == got.handler
        local == YAML(resource)
        unprepared == Unprepare(h, resource)
        fetched == GetRemote(rem, unprepared, fault)
        tr == <<Call("GetHandler", idx, "ok", resource.spec),
                Call("YAML", idx, "ok", resource.spec),
                Call("Unprepare", idx, "ok", unprepared.spec),
                Call("GetRemote", idx, fetched.err, fetched.resource.spec)>>
    IN  After(tr, DiffFetched(rem, h, local, fetched, unprepared, idx, fault))

-----------------------------------------------------------------------------
(* Preview *)

\* handler.(PreviewHandler): the dashboard handler implements Preview.
IsPreviewHandler(h) == h = "dashboard"

\* DashboardHandler.Preview: post a snapshot, then report its URLs and, when
\* the snapshot expires, a warning.
DashboardPreview(resource, idx, fault, expiresSeconds) ==
    IF fault = "preview"
    THEN Out("err", PlainErr("preview"), <<>>,
             <<Call("postSnapshot", idx, "err", resource.spec)>>)
    ELSE Out("continue", NoErr, <<>>,
             <<Call("postSnapshot", idx, "ok", resource.spec),
               Event("Info", idx, resource.spec),
               Event("Error", idx, resource.spec)>>
             \o (IF expiresSeconds > 0
                 THEN <<Event("Warn", idx, resource.spec)>> ELSE <<>>))

\* Mutant of PreviewResource: a resource whose handler cannot preview is
\* reported and skipped, and the loop goes on.
PreviewResourceSkips(rem, resource, idx, fault, expiresSeconds) ==
    LET got == GetHandler(resource.kind) IN
    IF ~got.ok
    THEN Out("nil", NoErr, rem, <<Call("GetHandler", idx, "err", resource.spec)>>)
    ELSE IF ~IsPreviewHandler(got.handler)
    THEN Out("continue", NoErr, rem,
             <<Call("GetHandler", idx, "ok", resource.spec),
               Event("NotSupported", idx, resource.spec)>>)
    ELSE LET out == DashboardPreview(resource, idx, fault, expiresSeconds)
         IN  After(<<Call("GetHandler", idx, "ok", resource.spec)>>,
                   [out EXCEPT !.remote = rem])

\* Preview, one pass of the loop body for resources[idx].
PreviewResource(rem, resource, idx, fault, expiresSeconds) ==
    LET got == GetHandler(resource.kind) IN
    IF ~got.ok
    THEN Out("nil", NoErr, rem, <<Call("GetHandler", idx, "err", resource.spec)>>)
    ELSE IF ~IsPreviewHandler(got.handler)
    THEN Out("nil", NoErr, rem,
             <<Call("GetHandler", idx, "ok", resource.spec),
               Event("NotSupported", idx, resource.spec)>>)
    ELSE LET out == DashboardPreview(resource, idx, fault, expiresSeconds)
         IN  After(<<Call("GetHandler", idx, "ok", resource.spec)>>,
                   [out EXCEPT !.remote = rem])

-----------------------------------------------------------------------------
(* The state machine of the reconciler *)

\* What the endpoint may hold under a key.
RemoteValues(k) ==
    {Absent} \cup {Stored(Registry[k[1]], Res(k[1], k[2], b)) : b \in Bodies}

ListKeys(rs) == {Key(rs[j]) : j \in 1 .. Len(rs)} \cap Keys

\* Values of the Get / Listen state while none of the two has run.
NoTarget == [handlerName |-> <<>>, resourceID |-> <<>>, ok |-> FALSE]
NoSub == <<"-">>
OldContent == <<"old">>

\* prev when there is no earlier Apply whose effect on the remote still stands.
NoRun == [op |-> "none", status |-> "idle", added |-> {}]

\* Values of the parse, export and watch state while none of them has run.
NoInput == [fn |-> "none"]
NoFiles == [dirs |-> {}, data |-> <<>>]
MoreIdle ==
    /\ input = NoInput
    /\ files = NoFiles
    /\ watch = "none"
    /\ loop = "none"
    /\ events = <<>>
    /\ closed = FALSE
    /\ wlog = <<>>

Init ==
    /\ resources \in ResourceLists
    /\ remote \in [Keys -> Specs \cup {Absent}]
    /\ \A k \in Keys :
          remote[k] \in (IF k \in ListKeys(resources)
                         THEN RemoteValues(k) ELSE {Absent})
    /\ op = "none"
    /\ i = 1
    /\ status = "idle"
    /\ retErr = NoErr
    /\ trace = <<>>
    /\ prev = NoRun
    /\ dirty = FALSE
    /\ expires = 0
    /\ uidArg = <<>>
    /\ target = NoTarget
    /\ sub = NoSub
    /\ file = OldContent
    /\ conn = "none"
    /\ MoreIdle

\* The positions of resources for which this run notified ev.
Notified(tr, ev) ==
    {tr[n].idx : n \in {m \in 1 .. Len(tr) : tr[m].fn = ev /\ tr[m].res = "notify"}}

\* A one-shot command is invoked with the resources; the loop has not run.
Start(o) ==
    /\ status # "running"
    /\ op' = o
    /\ i' = 1
    /\ status' = IF Len(resources) = 0 THEN "nil" ELSE "running"
    /\ retErr' = NoErr
    /\ trace' = <<>>
    /\ prev' = IF op = "Apply" /\ ~dirty
               THEN [op |-> op, status |-> status, added |-> Notified(trace, "Added")]
               ELSE NoRun
    /\ dirty' = FALSE
    /\ expires' \in (IF o = "Preview" THEN {0, 1} ELSE {0})
    /\ UNCHANGED <<resources, remote, listenVars, moreVars>>

\* The loop body ran for resources[i] and left `out`.
Advance(out) ==
    /\ remote' = out.remote
    /\ trace' = trace \o out.trace
    /\ retErr' = out.err
    /\ IF out.next = "continue"
       THEN /\ i' = i + 1
            /\ status' = IF i = Len(resources) THEN "nil" ELSE "running"
       ELSE /\ i' = i
            /\ status' = out.next
    /\ UNCHANGED <<resources, op, prev, dirty, expires, listenVars, moreVars>>

ApplyStep ==
    /\ op = "Apply"
    /\ status = "running"
    /\ \E fault \in Faults :
          Advance(ApplyResource(remote, resources[i], i, fault))

DiffStep ==
    /\ op = "Diff"
    /\ status = "running"
    /\ \E fault \in Faults :
          Advance(DiffResource(remote, resources[i], i, fault))

PreviewStep ==
    /\ op = "Preview"
    /\ status = "running"
    /\ \E fault \in Faults :
          Advance(PreviewResource(remote, resources[i], i, fault, expires))

\* Somebody else creates, changes or deletes a resource at the endpoint.
ExternalChange ==
    /\ \E k \in ListKeys(resources) : \E v \in RemoteValues(k) :
          /\ v # remote[k]
          /\ remote' = [remote EXCEPT ![k] = v]
    /\ dirty' = TRUE
    /\ prev' = NoRun
    /\ UNCHANGED <<resources, op, i, status, retErr, trace, expires, listenVars, moreVars>>

Next ==
    \/ Start("Apply")
    \/ Start("Diff")
    \/ Start("Preview")
    \/ ApplyStep
    \/ DiffStep
    \/ PreviewStep
    \/ ExternalChange

Spec == Init /\ [][Next]_vars

-----------------------------------------------------------------------------
(* UID addressing: Get and Listen *)

Alphabet == {"g", "d", "a", "."}
UIDStrings == UNION {[1 .. n -> Alphabet] : n \in 0 .. MaxUIDLen}

\* strings.Count(s, ".")
RECURSIVE CountDots(_)
CountDots(s) ==
    IF s = <<>> THEN 0
    ELSE (IF Head(s) = "." THEN 1 ELSE 0) + CountDots(Tail(s))

\* strings.Index(s, "."), 1-based; 0 when s has no dot.
RECURSIVE IndexDot(_)
IndexDot(s) ==
    IF s = <<>> THEN 0
    ELSE IF Head(s) = "." THEN 1
    ELSE LET r == IndexDot(Tail(s)) IN IF r = 0 THEN 0 ELSE r + 1

\* strings.SplitN(s, ".", n) for n >= 1: at most n parts, the last one the
\* unsplit rest.
RECURSIVE SplitN(_, _)
SplitN(s, n) ==
    LET p == IndexDot(s) IN
    IF n <= 1 \/ p = 0 THEN <<s>>
    ELSE <<SubSeq(s, 1, p - 1)>> \o SplitN(SubSeq(s, p + 1, Len(s)), n - 1)

\* Mutant of ParseUID: a UID with two dots is split at its first dot only.
ParseUIDFirstDot(UID) ==
    LET count == CountDots(UID) IN
    IF count = 1 \/ count = 2
    THEN LET parts == SplitN(UID, 2)
         IN  [handlerName |-> parts[1], resourceID |-> parts[2], ok |-> TRUE]
    ELSE [handlerName |-> <<>>, resourceID |-> <<>>, ok |-> FALSE]

\* The head of Get and of Listen: resolve the UID into handler name and
\* resource id by its number of dots.
ParseUID(UID) ==
    LET count == CountDots(UID) IN
    IF count = 1
    THEN LET parts == SplitN(UID, 2)
         IN  [handlerName |-> parts[1], resourceID |-> parts[2], ok |-> TRUE]
    ELSE IF count = 2
    THEN LET parts == SplitN(UID, 3)
         IN  [handlerName |-> parts[1] \o <<".">> \o parts[2],
              resourceID |-> parts[3], ok |-> TRUE]
    ELSE NoTarget

GetFaults == {"none", "fetch", "yaml"}

\* Get, after the UID was resolved: look the handler up, fetch the resource
\* by its id, unprepare it and print its representation.
GetResolved(rem, t, fault) ==
    LET got == GetHandler(t.handlerName) IN
    IF ~got.ok
    THEN Out("err", PlainErr("handlerNotFound"), rem,
             <<Call("GetHandler", 0, "err", t.handlerName)>>)
    ELSE
    LET h == got.handler
        asked == [kind |-> t.handlerName, uid |-> t.resourceID, spec |-> Absent]
        fetched == GetRemote(rem, asked, fault)
        tr == <<Call("GetHandler", 0, "ok", t.handlerName),
                Call("GetByUID", 0, fetched.err, t.resourceID)>>
    IN  IF fetched.err # "ok"
        THEN Out("err", PlainErr("fetch"), rem, tr)
        ELSE LET resource == Unprepare(h, fetched.resource) IN
             IF fault = "yaml"
             THEN Out("err", PlainErr("yaml"), rem,
                      tr \o <<Call("YAML", 0, "err", resource.spec)>>)
             ELSE Out("nil", NoErr, rem,
                      tr \o <<Call("YAML", 0, "ok", resource.spec),
                              Call("Println", 0, "ok", YAML(resource))>>)

\* The command returned with `out`.
Return(out) ==
    /\ status' = out.next
    /\ retErr' = out.err
    /\ trace' = out.trace
    /\ remote' = out.remote

\* The get command: one invocation of Get in a fresh process.
Get ==
    /\ status = "idle"
    /\ \E UID \in UIDStrings : \E fault \in GetFaults :
          /\ uidArg' = UID
          /\ op' = "Get"
          /\ target' = ParseUID(UID)
          /\ IF ~target'.ok
             THEN Return(Out("err", PlainErr("invalidUID"), remote, <<>>))
             ELSE Return(GetResolved(remote, target', fault))
    /\ UNCHANGED <<reconVars, sub, file, conn, moreVars>>

-----------------------------------------------------------------------------
(* Listen *)

\* handler.(ListenHandler): the dashboard handler implements Listen.
IsListenHandler(h) == h = "dashboard"

ListenFaults == {"none", "wsurl", "subscription", "subscribe", "connect"}

\* watchDashboard up to its final select {}: "listening" when the
\* subscription was made and the client connects, else the error returned.
watchDashboard(rem, UID, fault) ==
    IF fault = "wsurl"
    THEN Out("err", PlainErr("wsurl"), rem,
             <<Call("getWSGrafanaURL", 0, "err", UID)>>)
    ELSE IF fault = "subscription"
    THEN Out("err", PlainErr("subscription"), rem,
             <<Call("getWSGrafanaURL", 0, "ok", UID),
               Call("NewSubscription", 0, "err", UID)>>)
    ELSE IF fault = "subscribe"
    THEN Out("err", PlainErr("subscribe"), rem,
             <<Call("getWSGrafanaURL", 0, "ok", UID),
               Call("NewSubscription", 0, "ok", UID),
               Call("Subscribe", 0, "err", UID)>>)
    ELSE IF fault = "connect"
    THEN Out("err", PlainErr("connect"), rem,
             <<Call("getWSGrafanaURL", 0, "ok", UID),
               Call("NewSubscription", 0, "ok", UID),
               Call("Subscribe", 0, "ok", UID),
               Call("Connect", 0, "err", UID)>>)
    ELSE Out("listening", NoErr, rem,
             <<Call("getWSGrafanaURL", 0, "ok", UID),
               Call("NewSubscription", 0, "ok", UID),
               Call("Subscribe", 0, "ok", UID),
               Call("Connect", 0, "ok", UID)>>)

\* Listen, after the UID was resolved.
ListenResolved(rem, t, fault) ==
    LET got == GetHandler(t.handlerName) IN
    IF ~got.ok
    THEN Out("err", PlainErr("handlerNotFound"), rem,
             <<Call("GetHandler", 0, "err", t.handlerName)>>)
    ELSE IF ~IsListenHandler(got.handler)
    THEN Out("nil", NoErr, rem,
             <<Call("GetHandler", 0, "ok", t.handlerName),
               Event("NotSupported", 0, t.resourceID)>>)
    ELSE After(<<Call("GetHandler", 0, "ok", t.handlerName)>>,
               watchDashboard(rem, t.resourceID, fault))

\* The listen command: one invocation of Listen in a fresh process.
Listen ==
    /\ status = "idle"
    /\ \E UID \in UIDStrings : \E fault \in ListenFaults :
          /\ uidArg' = UID
          /\ op' = "Listen"
          /\ target' = ParseUID(UID)
          /\ LET out == IF ~target'.ok
                        THEN Out("err", PlainErr("invalidUID"), remote, <<>>)
                        ELSE ListenResolved(remote, target', fault)
             IN  /\ Return(out)
                 /\ sub' = IF out.next = "listening" THEN target'.resourceID ELSE sub
                 /\ conn' = IF out.next = "listening" THEN "connecting" ELSE conn
    /\ UNCHANGED <<reconVars, file, moreVars>>

\* What the server publishes on a channel, as the handler receives it:
\* bytes that do not decode, or an object with uid and action (a missing
\* uid decodes to the empty string).
Undecodable == [ok |-> FALSE, uid |-> <<>>, action |-> "none"]
Payloads ==
    {Undecodable}
        \cup [ok : {TRUE}, uid : ResourceIDs \cup {<<>>}, action : {"saved", "deleted"}]

\* dashboard.toJSON(): the serialized dashboard, which names its uid.
toJSON(uid, spec) == <<"uid", uid, "body", spec.body>>

\* Mutant of WriteFile: the data is appended to what the file held.
WriteFileAppend(old, data) == old \o data

\* ioutil.WriteFile(filename, data, 0644): the file holds data and nothing
\* of what it held before. OnPublish discards the error WriteFile returns;
\* the write is taken to succeed.
WriteFile(old, data) == data

PublishFaults == {"none", "fetch", "toJSON"}

\* eventHandler.OnPublish: the new content of h.filename and the calls made.
OnPublishHandler(rem, content, e, fault) ==
    IF ~e.ok
    THEN [file |-> content, trace |-> <<Call("Unmarshal", 0, "err", e)>>]
    ELSE
    LET tr == <<Call("Unmarshal", 0, "ok", e)>>
                \o (IF e.action # "saved"
                    THEN <<Call("Println", 0, "ok", "Unknown action received")>>
                    ELSE <<>>)
        asked == [kind |-> DashboardName, uid |-> e.uid, spec |-> Absent]
        fetched == GetRemote(rem, asked, fault)
        tr2 == tr \o <<Call("getRemoteDashboard", 0, fetched.err,
                            fetched.resource.spec)>>
    IN  IF fetched.err # "ok"
        THEN [file |-> content, trace |-> tr2]
        ELSE IF fault = "toJSON"
        THEN [file |-> content,
              trace |-> tr2 \o <<Call("toJSON", 0, "err", fetched.resource.spec)>>]
        ELSE LET dashboardJSON == toJSON(e.uid, fetched.resource.spec)
             IN  [file |-> WriteFile(content, dashboardJSON),
                  trace |-> tr2 \o <<Call("toJSON", 0, "ok", fetched.resource.spec),
                                     Call("WriteFile", 0, "ok", dashboardJSON)>>]

\* A publication arrives on the subscribed channel.
OnPublish ==
    /\ status = "listening"
    /\ conn = "subscribed"
    /\ \E e \in Payloads : \E fault \in PublishFaults :
          LET out == OnPublishHandler(remote, file, e, fault) IN
          /\ file' = out.file
          /\ trace' = out.trace
    /\ op' = "OnPublish"
    /\ UNCHANGED <<remote, status, retErr, reconVars, uidArg, target, sub, conn, moreVars>>

\* eventHandler.OnConnect: the transport reports that it is connected, the
\* first time or again; the handler only logs.
OnConnect ==
    /\ status = "listening"
    /\ conn \in {"connecting", "disconnected"}
    /\ conn' = "connected"
    /\ UNCHANGED <<remote, op, status, retErr, trace, reconVars, uidArg, target, sub,
                   file, moreVars>>

\* eventHandler.OnSubscribeSuccess: the channel is subscribed, the first
\* time or again after a reconnect; the handler only logs. Publications
\* arrive from here on.
OnSubscribeSuccess ==
    /\ status = "listening"
    /\ conn = "connected"
    /\ conn' = "subscribed"
    /\ UNCHANGED <<remote, op, status, retErr, trace, reconVars, uidArg, target, sub,
                   file, moreVars>>

\* eventHandler.OnDisconnect: the transport reports that the connection is
\* lost; the handler only logs.
OnDisconnect ==
    /\ status = "listening"
    /\ conn \in {"connected", "subscribed"}
    /\ conn' = "disconnected"
    /\ UNCHANGED <<remote, op, status, retErr, trace, reconVars, uidArg, target, sub,
                   file, moreVars>>

\* Somebody saves or deletes a dashboard at the remote while Listen runs.
RemoteSave ==
    /\ status = "listening"
    /\ \E u \in ResourceIDs : \E v \in RemoteValues(<<DashboardName, u>>) :
          /\ v # remote[<<DashboardName, u>>]
          /\ remote' = [remote EXCEPT ![<<DashboardName, u>>] = v]
    /\ UNCHANGED <<op, status, retErr, trace, reconVars, listenVars, moreVars>>

InitListen ==
    /\ resources = <<>>
    /\ remote \in [Keys -> Specs \cup {Absent}]
    /\ \A k \in Keys :
          remote[k] \in (IF k[2] = <<"a">> THEN {Absent} ELSE RemoteValues(k))
    /\ op = "none"
    /\ i = 1
    /\ status = "idle"
    /\ retErr = NoErr
    /\ trace = <<>>
    /\ prev = NoRun
    /\ dirty = FALSE
    /\ expires = 0
    /\ uidArg = <<>>
    /\ target = NoTarget
    /\ sub = NoSub
    /\ file \in {OldContent, toJSON(<<"d">>, Stored("dashboard", Res(DashboardName, <<"d">>, "v1")))}
    /\ conn = "none"
    /\ MoreIdle

NextListen ==
    \/ Get
    \/ Listen
    \/ OnPublish
    \/ OnConnect
    \/ OnSubscribeSuccess
    \/ OnDisconnect
    \/ RemoteSave

SpecListen == InitListen /\ [][NextListen]_vars

-----------------------------------------------------------------------------
(* The parsing pipeline: Parse, ParseYAML, ParseJsonnet *)

MaxManifests == 2   \* most documents in one input

\* A decoded document: its kind, metadata name, dashboard title (<<>> when it
\* has none), uid (<<>> when it has none) and the rest of its spec, which may
\* fail to decode into the handler's type.
ManifestBodies == Bodies \cup {"undecodable"}
Manifest(k, n, t, u, b) ==
    [kind |-> k, name |-> n, title |-> t, uid |-> u, body |-> b]
\* What the YAML decoder hands back for bytes that are no document.
Garbage == Manifest(<<>>, <<>>, <<>>, <<>>, "garbage")

\* The k-th source name.
SourceName(k) == <<"n">> \o [j \in 1 .. k |-> "i"]

Documents ==
    {Manifest(k, SourceName(1), <<"t">>, u, b) :
        k \in {GenericName, DashboardName, UnknownName},
        u \in {<<"a">>, <<>>}, b \in ManifestBodies}
        \cup {Garbage}
DocumentLists == UNION {[1 .. n -> Documents] : n \in 0 .. MaxManifests}

\* ErrUidsMissing: the names it lists, in order.
ErrUidsMissing(names) == [code |-> "uidsMissing", names |-> names]
NoTitle == <<"Unidentifiable dashboard without title nor UID">>

\* DashboardHandler.Parse: decode the spec into a dashboard, build the
\* resource from its uid and the manifest's name; a dashboard without uid is
\* an ErrUidsMissing naming its title.
HandlerParse(m) ==
    IF m.body = "undecodable"
    THEN [ok |-> FALSE, err |-> PlainErr("decode"), resource |-> m]
    ELSE IF m.uid = <<>>
    THEN [ok |-> FALSE,
          err |-> ErrUidsMissing(<<IF m.title # <<>> THEN m.title ELSE NoTitle>>),
          resource |-> m]
    ELSE [ok |-> TRUE, err |-> NoErr, resource |-> Res(m.kind, m.uid, m.body)]

\* What a parse returns: the resources (nil is the empty list) and the error.
Parsed(next, err, rs, tr) ==
    [next |-> next, err |-> err, resources |-> rs, trace |-> tr]

ParseFaults == {"none", "read"}

\* ParseYAML, the decode loop from document idx on: it ends at the first
\* Decode that does not return nil.
RECURSIVE ParseYAMLFrom(_, _, _, _)
ParseYAMLFrom(docs, idx, rs, tr) ==
    IF idx > Len(docs) THEN Parsed("nil", NoErr, rs, tr)
    ELSE
    LET m == docs[idx] IN
    IF m = Garbage
    THEN Parsed("nil", NoErr, rs, tr \o <<Call("Decode", idx, "err", m)>>)
    ELSE
    LET got == GetHandler(m.kind) IN
    IF ~got.ok
    THEN Parsed("err", PlainErr("handlerNotFound"), <<>>,
                tr \o <<Call("GetHandler", idx, "err", m)>>)
    ELSE
    LET parsed == HandlerParse(m) IN
    IF ~parsed.ok
    THEN Parsed("err", parsed.err, <<>>,
                tr \o <<Call("GetHandler", idx, "ok", m), Call("Parse", idx, "err", m)>>)
    ELSE ParseYAMLFrom(docs, idx + 1, rs \o <<parsed.resource>>,
                tr \o <<Call("GetHandler", idx, "ok", m), Call("Parse", idx, "ok", m)>>)

ParseYAML(docs, fault) ==
    IF fault = "read"
    THEN Parsed("err", PlainErr("open"), <<>>, <<>>)
    ELSE ParseYAMLFrom(docs, 1, <<>>, <<>>)

\* ParseJsonnet, the loop over the extracted manifests from idx on: a
\* manifest whose kind has no handler is logged and skipped.
RECURSIVE ParseJsonnetFrom(_, _, _, _)
ParseJsonnetFrom(extracted, idx, rs, tr) ==
    IF idx > Len(extracted) THEN Parsed("nil", NoErr, rs, tr)
    ELSE
    LET m == extracted[idx]
        got == GetHandler(m.kind)
        parsed == HandlerParse(m)
    IN  IF ~got.ok
        THEN ParseJsonnetFrom(extracted, idx + 1, rs,
                 tr \o <<Call("GetHandler", idx, "err", m)>>)
        ELSE IF ~parsed.ok
        THEN Parsed("err", parsed.err, <<>>,
                 tr \o <<Call("GetHandler", idx, "ok", m), Call("Parse", idx, "err", m)>>)
        ELSE ParseJsonnetFrom(extracted, idx + 1, rs \o <<parsed.resource>>,
                 tr \o <<Call("GetHandler", idx, "ok", m), Call("Parse", idx, "ok", m)>>)

\* ParseJsonnet: evaluate, unmarshal, extract and unwrap, then parse each
\* manifest; output that is no JSON fails the whole parse.
ParseJsonnet(docs, fault) ==
    IF fault = "read"
    THEN Parsed("err", PlainErr("evaluate"), <<>>, <<>>)
    ELSE IF \E n \in 1 .. Len(docs) : docs[n] = Garbage
    THEN Parsed("err", PlainErr("unmarshal"), <<>>, <<>>)
    ELSE ParseJsonnetFrom(docs, 1, <<>>, <<>>)

\* The file name suffixes Parse tells apart, and one it does not know.
Suffixes == {".yaml", ".yml", ".jsonnet", ".libsonnet", ".json", ".txt"}

Parse(suffix, docs, fault) ==
    IF suffix \in {".yaml", ".yml"} THEN ParseYAML(docs, fault)
    ELSE IF suffix \in {".jsonnet", ".libsonnet", ".json"} THEN ParseJsonnet(docs, fault)
    ELSE Parsed("err", PlainErr("unsupportedFileType"), <<>>, <<>>)

\* One invocation of Parse on a file.
ParseFile ==
    /\ status = "idle"
    /\ \E suffix \in Suffixes : \E docs \in DocumentLists : \E fault \in ParseFaults :
          LET out == Parse(suffix, docs, fault) IN
          /\ input' = [fn |-> "Parse", filename |-> suffix, manifests |-> docs]
          /\ resources' = out.resources
          /\ status' = out.next
          /\ retErr' = out.err
          /\ trace' = out.trace
    /\ op' = "Parse"
    /\ UNCHANGED <<remote, i, prev, dirty, expires, listenVars, exportVars, watchVars>>

-----------------------------------------------------------------------------
(* DashboardHandler.ParseHiddenElements *)

dashboardsPath == "grafanaDashboards"
dashboardFolderPath == "grafanaDashboardFolder"

\* The names (keys of the evaluator's map) the dashboards of one batch have.
SourceNames == {SourceName(k) : k \in 1 .. MaxManifests}

\* The value found under a path: a string, or a map from name to dashboard.
Boards ==
    {Manifest(DashboardName, <<>>, t, u, b) :
        t \in {<<"t">>, <<>>}, u \in {<<"a">>, <<>>}, b \in {"v1", "undecodable"}}
HiddenElements ==
    {[string |-> TRUE, value |-> <<"f">>]}
        \cup {[string |-> FALSE, value |-> msi] :
                msi \in UNION {[S -> Boards] : S \in SUBSET SourceNames}}

\* The orders in which a range over a map with the keys S may visit them.
Orders(S) ==
    {o \in [1 .. Cardinality(S) -> S] :
        \A a, b \in 1 .. Cardinality(S) : a # b => o[a] # o[b]}

\* DashboardHandler.newDashboardFolderResource
FolderResource(folderName) ==
    [kind |-> DashboardName, uid |-> folderName, spec |-> Absent]

\* ParseHiddenElements, the range over msi in the order `order`, from its
\* position idx on; rs is the ResourceList (key -> resource) built so far.
\* Parse has already refused a dashboard without uid, so the test of
\* resource.UID that fills missingUIDs never finds one.
RECURSIVE ParseHiddenFrom(_, _, _, _, _, _)
ParseHiddenFrom(msi, order, idx, rs, missingUIDs, tr) ==
    IF idx > Len(order)
    THEN IF Len(missingUIDs) > 0
         THEN Parsed("err", ErrUidsMissing(missingUIDs), <<>>, tr)
         ELSE Parsed("nil", NoErr, rs, tr)
    ELSE
    LET k == order[idx]
        m == [msi[k] EXCEPT !.name = k]
        parsed == HandlerParse(m)
    IN  IF ~parsed.ok
        THEN Parsed("err", parsed.err, <<>>, tr \o <<Call("Parse", k, "err", m)>>)
        ELSE
        LET resource == parsed.resource
            key == Key(resource)
            rs2 == [x \in DOMAIN rs \cup {key} |->
                        IF x = key THEN resource ELSE rs[x]]
        IN  ParseHiddenFrom(msi, order, idx + 1, rs2,
                IF resource.uid = <<>> THEN Append(missingUIDs, k) ELSE missingUIDs,
                tr \o <<Call("Parse", k, "ok", m)>>)

\* ParseHiddenElements(path, i): a string under the folder path is the
\* folder resource; anything else is asserted to be a map of dashboards,
\* which panics for a string.
ParseHiddenElements(path, e, order) ==
    IF path = dashboardFolderPath /\ e.string
    THEN Parsed("nil", NoErr,
                [x \in {dashboardFolderPath} |-> FolderResource(e.value)], <<>>)
    ELSE IF e.string
    THEN Parsed("panic", PlainErr("typeAssertion"), <<>>, <<>>)
    ELSE ParseHiddenFrom(e.value, order, 1, <<>>, <<>>, <<>>)

\* One invocation of ParseHiddenElements on what the evaluator produced.
ParseHidden ==
    /\ status = "idle"
    /\ \E path \in {dashboardsPath, dashboardFolderPath} : \E e \in HiddenElements :
       \E order \in (IF e.string THEN {<<>>} ELSE Orders(DOMAIN e.value)) :
          LET out == ParseHiddenElements(path, e, order) IN
          /\ input' = [fn |-> "ParseHiddenElements", path |-> path, i |-> e]
          /\ resources' = out.resources
          /\ status' = out.next
          /\ retErr' = out.err
          /\ trace' = out.trace
    /\ op' = "ParseHiddenElements"
    /\ UNCHANGED <<remote, i, prev, dirty, expires, listenVars, exportVars, watchVars>>

InitParse ==
    /\ resources = <<>>
    /\ remote = [k \in Keys |-> Absent]
    /\ op = "none"
    /\ i = 1
    /\ status = "idle"
    /\ retErr = NoErr
    /\ trace = <<>>
    /\ prev = NoRun
    /\ dirty = FALSE
    /\ expires = 0
    /\ uidArg = <<>>
    /\ target = NoTarget
    /\ sub = NoSub
    /\ file = OldContent
    /\ conn = "none"
    /\ MoreIdle

NextParse ==
    \/ ParseFile
    \/ ParseHidden

SpecParse == InitParse /\ [][NextParse]_vars

-----------------------------------------------------------------------------
(* Watch *)

MaxEvents == 2   \* most file events and watcher errors in one run

\* fsnotify.Op is a bit mask of these flags.
Create == 1
Write == 2
Remove == 4
Rename == 8
Chmod == 16
OpFlag == [c \in {"create", "write", "remove", "rename", "chmod"} |->
             CASE c = "create" -> Create [] c = "write" -> Write
               [] c = "remove" -> Remove [] c = "rename" -> Rename
               [] c = "chmod" -> Chmod]

\* The operations one event may carry, and the mask the event has for them.
OpSets ==
    {{"create"}, {"write"}, {"remove"}, {"rename"}, {"chmod"}, {"write", "chmod"}}
RECURSIVE Mask(_)
Mask(S) ==
    IF S = {} THEN 0
    ELSE LET c == CHOOSE x \in S : TRUE IN OpFlag[c] + Mask(S \ {c})
EventOps == {Mask(S) : S \in OpSets}

\* Mutant of HasWrite: the mask is compared with Write as a whole.
HasWriteOnly(mask) == mask = Write

\* event.Op&fsnotify.Write == fsnotify.Write
HasWrite(mask) == (mask \div Write) % 2 = 1

\* What parser.Parse(config) may return in a cycle: resources, or an error
\* and no resources.
WatchSources ==
    {<<Res(GenericName, <<"a">>, "v1")>>,
     <<Res(GenericName, <<"a">>, "v2")>>,
     <<Res(GenericName, <<"a">>, "v1"), Res(DashboardName, <<"d">>, "v1")>>}
ParserResults ==
    {[err |-> FALSE, resources |-> rs] : rs \in WatchSources}
        \cup {[err |-> TRUE, resources |-> <<>>]}

\* Entries of wlog: something the goroutine received, or a cycle it ran.
Received(kind, mask) ==
    [kind |-> kind, op |-> mask, parse |-> "none", list |-> <<>>, apply |-> "none"]
Cycle(parsed, applied) ==
    [kind |-> "cycle", op |-> 0, parse |-> IF parsed.err THEN "err" ELSE "ok",
     list |-> applied, apply |-> "running"]
Arrived == Cardinality({n \in 1 .. Len(wlog) : wlog[n].kind # "cycle"})

WatchFaults == {"none", "newWatcher", "add"}

\* The watch command: Watch up to the point where it returns or blocks on
\* <-done. The goroutine is started before the directory is added; when
\* Add fails Watch returns and its deferred watcher.Close() runs.
WatchCmd ==
    /\ watch = "none"
    /\ \E fault \in WatchFaults :
          /\ watch' = IF fault = "none" THEN "blocked" ELSE "err"
          /\ loop' = IF fault = "newWatcher" THEN "none" ELSE "select"
          /\ closed' = (fault = "add")
    /\ op' = "Watch"
    /\ UNCHANGED <<remote, status, retErr, trace, reconVars, listenVars,
                   parseVars, exportVars, events, wlog>>

\* Something happens to a file of the watched directory.
FileEvent ==
    /\ watch = "blocked"
    /\ ~closed
    /\ Arrived + Len(events) < MaxEvents
    /\ \E mask \in EventOps : events' = Append(events, mask)
    /\ UNCHANGED <<remote, op, status, retErr, trace, reconVars, listenVars,
                   parseVars, exportVars, watch, loop, closed, wlog>>

\* Mutant of TakeEvent: events are also taken while a cycle runs, as by a
\* goroutine per event.
TakeEventAnytime ==
    /\ loop \in {"select", "cycle"}
    /\ events # <<>>
    /\ events' = Tail(events)
    /\ LET mask == Head(events) IN
       IF HasWrite(mask)
       THEN \E parsed \in ParserResults :
               /\ wlog' = wlog \o <<Received("event", mask),
                                    Cycle(parsed, parsed.resources)>>
               /\ loop' = "cycle"
               /\ resources' = parsed.resources
               /\ op' = "Apply"
               /\ i' = 1
               /\ status' = IF Len(parsed.resources) = 0 THEN "nil" ELSE "running"
               /\ retErr' = NoErr
               /\ trace' = <<>>
       ELSE /\ wlog' = Append(wlog, Received("event", mask))
            /\ UNCHANGED <<loop, resources, op, i, status, retErr, trace>>
    /\ UNCHANGED <<remote, prev, dirty, expires, listenVars, parseVars, exportVars,
                   watch, closed>>

\* The goroutine receives an event: for one with the write bit it parses
\* the source and calls Apply with what Parse returned, also after a parse
\* error; any other event is dropped.
TakeEvent ==
    /\ loop = "select"
    /\ events # <<>>
    /\ events' = Tail(events)
    /\ LET mask == Head(events) IN
       IF HasWrite(mask)
       THEN \E parsed \in ParserResults :
               /\ wlog' = wlog \o <<Received("event", mask),
                                    Cycle(parsed, parsed.resources)>>
               /\ loop' = "cycle"
               /\ resources' = parsed.resources
               /\ op' = "Apply"
               /\ i' = 1
               /\ status' = IF Len(parsed.resources) = 0 THEN "nil" ELSE "running"
               /\ retErr' = NoErr
               /\ trace' = <<>>
       ELSE /\ wlog' = Append(wlog, Received("event", mask))
            /\ UNCHANGED <<loop, resources, op, i, status, retErr, trace>>
    /\ UNCHANGED <<remote, prev, dirty, expires, listenVars, parseVars, exportVars,
                   watch, closed>>

\* Mutant of CycleEnd: the goroutine returns after a cycle whose Apply
\* returned an error.
CycleEndStopsOnError ==
    /\ loop = "cycle"
    /\ status \in {"nil", "err"}
    /\ wlog' = [wlog EXCEPT ![Len(wlog)].apply = status]
    /\ loop' = IF status = "err" THEN "exited" ELSE "select"
    /\ resources' = <<>>
    /\ i' = 1
    /\ status' = "idle"
    /\ trace' = <<>>
    /\ UNCHANGED <<remote, op, retErr, prev, dirty, expires, listenVars, parseVars,
                   exportVars, watch, events, closed>>

\* Apply has returned: its error, if any, is logged and the goroutine is
\* back at the select; the resources of the cycle are gone.
CycleEnd ==
    /\ loop = "cycle"
    /\ status \in {"nil", "err"}
    /\ wlog' = [wlog EXCEPT ![Len(wlog)].apply = status]
    /\ loop' = "select"
    /\ resources' = <<>>
    /\ i' = 1
    /\ status' = "idle"
    /\ trace' = <<>>
    /\ UNCHANGED <<remote, op, retErr, prev, dirty, expires, listenVars, parseVars,
                   exportVars, watch, events, closed>>

\* The goroutine receives an error from watcher.Errors and logs it.
TakeError ==
    /\ loop = "select"
    /\ ~closed
    /\ Arrived + Len(events) < MaxEvents
    /\ wlog' = Append(wlog, Received("error", 0))
    /\ UNCHANGED <<remote, op, status, retErr, trace, reconVars, listenVars,
                   parseVars, exportVars, watch, loop, events, closed>>

\* The watcher's channels are closed under the running Watch.
CloseChannels ==
    /\ watch = "blocked"
    /\ ~closed
    /\ closed' = TRUE
    /\ events' = <<>>
    /\ UNCHANGED <<remote, op, status, retErr, trace, reconVars, listenVars,
                   parseVars, exportVars, watch, loop, wlog>>

\* Mutant of LoopExit: the goroutine signals done when it returns, and
\* Watch returns nil.
LoopExitSignalsDone ==
    /\ loop = "select"
    /\ closed
    /\ loop' = "exited"
    /\ watch' = IF watch = "blocked" THEN "nil" ELSE watch
    /\ UNCHANGED <<remote, op, status, retErr, trace, reconVars, listenVars,
                   parseVars, exportVars, events, closed, wlog>>

\* The goroutine finds a channel closed and returns; nothing is sent on done.
LoopExit ==
    /\ loop = "select"
    /\ closed
    /\ loop' = "exited"
    /\ UNCHANGED <<remote, op, status, retErr, trace, reconVars, listenVars,
                   parseVars, exportVars, watch, events, closed, wlog>>

InitWatch ==
    /\ resources = <<>>
    /\ remote \in [Keys -> Specs \cup {Absent}]
    /\ \A k \in Keys :
          remote[k] \in (IF k \in {<<GenericName, <<"a">>>>, <<DashboardName, <<"d">>>>}
                         THEN RemoteValues(k) ELSE {Absent})
    /\ op = "none"
    /\ i = 1
    /\ status = "idle"
    /\ retErr = NoErr
    /\ trace = <<>>
    /\ prev = NoRun
    /\ dirty = FALSE
    /\ expires = 0
    /\ uidArg = <<>>
    /\ target = NoTarget
    /\ sub = NoSub
    /\ file = OldContent
    /\ conn = "none"
    /\ MoreIdle

NextWatch ==
    \/ WatchCmd
    \/ FileEvent
    \/ TakeEvent
    \/ ApplyStep
    \/ CycleEnd
    \/ TakeError
    \/ CloseChannels
    \/ LoopExit

SpecWatch == InitWatch /\ [][NextWatch]_vars

-----------------------------------------------------------------------------
(* Export *)

\* handler.GetExtension()
GetExtension(h) == IF h = "dashboard" THEN "json" ELSE "yaml"

\* The export directory itself, as a member of files.dirs.
ExportDir == <<"/">>
\* <exportDir>/<Kind>/<name>.<extension>
Path(resource, extension) == <<resource.kind, resource.uid, extension>>

\* The file system after a write of data to path.
WriteAt(data, path, content) ==
    [x \in DOMAIN data \cup {path} |-> IF x = path THEN content ELSE data[x]]

\* Content of a file that is no representation of any resource.
Junk == <<"junk">>

ExportOut(next, err, fs, tr) ==
    [next |-> next, err |-> err, files |-> fs, trace |-> tr]

ExportFaults == {"none", "yaml", "mkdir", "read", "write"}

\* Export, the branch taken when the file does not hold the representation:
\* write it, then Added for a file that did not exist, else Updated.
ExportWrite(fs, path, resource, updatedResource, isNotExist, idx, fault) ==
    IF fault = "write"
    THEN ExportOut("err", PlainErr("write"), fs,
                   <<Call("WriteFile", idx, "err", updatedResource)>>)
    ELSE ExportOut("continue", NoErr,
                   [fs EXCEPT !.data = WriteAt(@, path, updatedResource)],
                   <<Call("WriteFile", idx, "ok", updatedResource),
                     Event(IF isNotExist THEN "Added" ELSE "Updated", idx, resource.spec)>>)

\* Export, one pass of the loop body for resources[idx].
ExportResource(fs, resource, idx, fault) ==
    LET got == GetHandler(resource.kind) IN
    IF ~got.ok
    THEN ExportOut("nil", NoErr, fs, <<Call("GetHandler", idx, "err", resource.spec)>>)
    ELSE IF fault = "yaml"
    THEN ExportOut("err", PlainErr("yaml"), fs,
                   <<Call("GetHandler", idx, "ok", resource.spec),
                     Call("YAML", idx, "err", resource.spec)>>)
    ELSE
    LET updatedResource == YAML(resource)
        extension == GetExtension(got.handler)
        dir == resource.kind
        tr == <<Call("GetHandler", idx, "ok", resource.spec),
                Call("YAML", idx, "ok", resource.spec)>>
    IN  IF dir \notin fs.dirs /\ fault = "mkdir"
        THEN ExportOut("err", PlainErr("mkdir"), fs, tr \o <<Call("Mkdir", idx, "err", dir)>>)
        ELSE
        LET fs2 == [fs EXCEPT !.dirs = @ \cup {dir}]
            path == Path(resource, extension)
            isNotExist == path \notin DOMAIN fs.data
        IN  IF ~isNotExist /\ fault = "read"
            THEN ExportOut("err", PlainErr("read"), fs2,
                           tr \o <<Call("ReadFile", idx, "err", path)>>)
            ELSE
            LET existingResource == IF isNotExist THEN <<>> ELSE fs.data[path]
                tr2 == tr \o <<Call("ReadFile", idx, IF isNotExist THEN "notfound" ELSE "ok",
                                    [path |-> path, content |-> existingResource])>>
            IN  IF existingResource = updatedResource
                THEN ExportOut("continue", NoErr, fs2,
                               tr2 \o <<Event("NoChanges", idx, resource.spec)>>)
                ELSE LET w == ExportWrite(fs2, path, resource, updatedResource,
                                          isNotExist, idx, fault)
                     IN  [w EXCEPT !.trace = tr2 \o @]

\* The export command is invoked with the resources: Export up to its
\* loop. It creates the export directory when that does not exist.
ExportCmd ==
    /\ status # "running"
    /\ op' = "Export"
    /\ i' = 1
    /\ trace' = <<>>
    /\ prev' = IF op = "Export" /\ ~dirty
               THEN [op |-> op, status |-> status, added |-> Notified(trace, "Added")]
               ELSE NoRun
    /\ dirty' = FALSE
    /\ \E fault \in {"none", "mkdir"} :
          IF ExportDir \notin files.dirs /\ fault = "mkdir"
          THEN /\ status' = "err"
               /\ retErr' = PlainErr("mkdir")
               /\ files' = files
          ELSE /\ status' = IF Len(resources) = 0 THEN "nil" ELSE "running"
               /\ retErr' = NoErr
               /\ files' = [files EXCEPT !.dirs = @ \cup {ExportDir}]
    /\ UNCHANGED <<resources, remote, expires, listenVars, parseVars, watchVars>>

ExportStep ==
    /\ op = "Export"
    /\ status = "running"
    /\ \E fault \in ExportFaults :
          LET out == ExportResource(files, resources[i], i, fault) IN
          /\ files' = out.files
          /\ trace' = trace \o out.trace
          /\ retErr' = out.err
          /\ IF out.next = "continue"
             THEN /\ i' = i + 1
                  /\ status' = IF i = Len(resources) THEN "nil" ELSE "running"
             ELSE /\ i' = i
                  /\ status' = out.next
    /\ UNCHANGED <<resources, remote, op, prev, dirty, expires, listenVars,
                   parseVars, watchVars>>

\* The files an export of the local resources may meet or leave.
ExportPaths ==
    {Path(r, GetExtension(Registry[r.kind])) :
        r \in {x \in LocalResources : x.kind \in DOMAIN Registry}}

\* Somebody else writes or removes a file of the export directory.
ExternalEdit ==
    /\ ExportDir \in files.dirs
    /\ \E path \in ExportPaths :
          \/ /\ IF path \in DOMAIN files.data THEN files.data[path] # Junk ELSE TRUE
             /\ files' = [dirs |-> files.dirs \cup {path[1]},
                          data |-> WriteAt(files.data, path, Junk)]
          \/ /\ path \in DOMAIN files.data
             /\ files' = [files EXCEPT !.data = [x \in DOMAIN @ \ {path} |-> @[x]]]
    /\ dirty' = TRUE
    /\ prev' = NoRun
    /\ UNCHANGED <<resources, remote, op, i, status, retErr, trace, expires,
                   listenVars, parseVars, watchVars>>

InitExport ==
    /\ resources \in ResourceLists
    /\ remote = [k \in Keys |-> Absent]
    /\ op = "none"
    /\ i = 1
    /\ status = "idle"
    /\ retErr = NoErr
    /\ trace = <<>>
    /\ prev = NoRun
    /\ dirty = FALSE
    /\ expires = 0
    /\ uidArg = <<>>
    /\ target = NoTarget
    /\ sub = NoSub
    /\ file = OldContent
    /\ conn = "none"
    /\ input = NoInput
    /\ files \in {NoFiles,
                  [dirs |-> {ExportDir, GenericName},
                   data |-> WriteAt(<<>>, <<GenericName, <<"a">>, "yaml">>,
                                    YAML(Res(GenericName, <<"a">>, "v1")))]}
    /\ watch = "none"
    /\ loop = "none"
    /\ events = <<>>
    /\ closed = FALSE
    /\ wlog = <<>>

NextExport ==
    \/ ExportCmd
    \/ ExportStep
    \/ ExternalEdit

SpecExport == InitExport /\ [][NextExport]_vars

-----------------------------------------------------------------------------
(* Reading the trace of a run *)

Positions == 1 .. Len(trace)
Has(fn, j, res) ==
    \E n \in Positions : trace[n].fn = fn /\ trace[n].idx = j /\ trace[n].res = res
Count(fn, j) ==
    Cardinality({n \in Positions : trace[n].fn = fn /\ trace[n].idx = j})
NotifiedAt(j) ==
    {trace[n].fn : n \in {m \in Positions : trace[m].idx = j /\ trace[m].res = "notify"}}
\* No other resource of the list has the key of resources[j].
UniqueKey(j) ==
    \A m \in 1 .. Len(resources) : m # j => Key(resources[m]) # Key(resources[j])
\* The remote resource a successful GetRemote at trace position n returned.
FetchedAt(n) == [resources[trace[n].idx] EXCEPT !.spec = trace[n].val]

-----------------------------------------------------------------------------
(* Claims *)

\* C1: in Apply, a resource whose remote fetch returns not-found gets Add
\* called for it exactly once, directly after the fetch; Update is never
\* called for it and no representation is computed or compared for it; when
\* Add succeeds, Added is emitted before any call for a later resource.
C1_NotFoundAddsOnce ==
    op = "Apply" =>
        \A n \in Positions :
            (trace[n].fn = "GetRemote" /\ trace[n].res = "notfound") =>
                LET j == trace[n].idx IN
                /\ Count("Add", j) = 1
                /\ n < Len(trace)
                /\ trace[n + 1].fn = "Add" /\ trace[n + 1].idx = j
                /\ trace[n + 1].val = resources[j].spec
                /\ Count("Update", j) = 0
                /\ Count("Compare", j) = 0
                /\ Count("YAML", j) = 0
                /\ trace[n + 1].res = "ok" =>
                      /\ n + 2 <= Len(trace)
                      /\ trace[n + 2] = Event("Added", j, resources[j].spec)
                      /\ NotifiedAt(j) = {"Added"}
                      /\ \A m \in Positions : trace[m].idx > j => m > n + 2
                /\ trace[n + 1].res = "err" =>
                      /\ NotifiedAt(j) = {}
                      /\ status = "err"

\* C1 witness: Apply added the first resource and went on to the second.
C1_Witness ==
    /\ op = "Apply"
    /\ Has("GetRemote", 1, "notfound")
    /\ Has("Added", 1, "notify")
    /\ \E n \in Positions : trace[n].idx = 2

\* C2: in Apply and in Diff, a resource whose remote fetch returned the
\* remote resource and whose local representation equals the representation
\* of the unprepared remote gets NoChanges and nothing else: neither Add nor
\* Update is called for it.
C2_EqualMeansNoChanges ==
    op \in {"Apply", "Diff"} =>
        \A n \in Positions :
            (/\ trace[n].fn = "GetRemote"
             /\ trace[n].res = "ok"
             /\ ~Has("YAML", trace[n].idx, "err")
             /\ YAML(resources[trace[n].idx])
                   = YAML(Unprepare(Registry[resources[trace[n].idx].kind],
                                    FetchedAt(n)))) =>
                LET j == trace[n].idx IN
                /\ NotifiedAt(j) = {"NoChanges"}
                /\ Count("NoChanges", j) = 1
                /\ Count("Add", j) = 0
                /\ Count("Update", j) = 0

\* C2 witness: Apply found a remote resource carrying a server-assigned field
\* and reported NoChanges for it.
C2_Witness ==
    /\ op = "Apply"
    /\ \E n \in Positions :
          /\ trace[n].fn = "GetRemote" /\ trace[n].res = "ok"
          /\ trace[n].val.id = 1
          /\ NotifiedAt(trace[n].idx) = {"NoChanges"}

\* C3: when the run before this one was an Apply of the same list that added
\* resource j, nobody else changed the remote since that run started, and j
\* is the only resource with its key, then this Apply does not fetch
\* not-found for j, calls neither Add nor Update for j, emits neither Added
\* nor Updated for j, and once it is past j it has emitted NoChanges for j.
C3_ApplyTwice ==
    (op = "Apply" /\ prev.op = "Apply" /\ ~dirty) =>
        \A j \in prev.added :
            UniqueKey(j) =>
                /\ ~Has("GetRemote", j, "notfound")
                /\ Count("Add", j) = 0
                /\ Count("Update", j) = 0
                /\ NotifiedAt(j) \subseteq {"NoChanges"}
                /\ i > j => NotifiedAt(j) = {"NoChanges"}

\* C3 witness: the second Apply in a row reported NoChanges for a resource
\* that the first one added.
C3_Witness ==
    /\ op = "Apply" /\ prev.op = "Apply" /\ ~dirty
    /\ \E j \in prev.added :
          UniqueKey(j) /\ i > j /\ NotifiedAt(j) = {"NoChanges"}

\* C4 (as claimed): a Diff that returns nil right after an Apply of the same
\* list that returned nil, with no change of the remote by anybody else, has
\* emitted NoChanges for every resource of the list.
C4_Converged ==
    (/\ op = "Diff" /\ status = "nil"
     /\ prev.op = "Apply" /\ prev.status = "nil" /\ ~dirty) =>
        \A j \in 1 .. Len(resources) : NotifiedAt(j) = {"NoChanges"}

\* C6: in Diff, a not-found fetch for a resource is followed by NotFound for
\* it and the loop goes on to the next resource; any other fetch error at
\* resource k is the last thing Diff does: it returns the error naming kind
\* and uid of k, nothing is called for a later resource, and every resource
\* before k still has its notification.
C6_DiffFetchErrors ==
    op = "Diff" =>
        \A n \in Positions :
            trace[n].fn = "GetRemote" =>
                LET j == trace[n].idx IN
                /\ trace[n].res = "notfound" =>
                      /\ n < Len(trace)
                      /\ trace[n + 1].fn = "NotFound" /\ trace[n + 1].idx = j
                      /\ NotifiedAt(j) = {"NotFound"}
                      /\ i > j
                /\ trace[n].res = "err" =>
                      /\ n = Len(trace)
                      /\ status = "err"
                      /\ i = j
                      /\ retErr.code = "retrieve"
                      /\ retErr.kind = resources[j].kind
                      /\ retErr.uid = resources[j].uid
                      /\ \A m \in Positions : trace[m].idx <= j
                      /\ NotifiedAt(j) = {}
                      /\ \A m \in 1 .. (j - 1) : NotifiedAt(m) # {}

\* C6 witness: Diff reported NotFound for the first resource, went on, and
\* returned the error of the failed fetch of the second.
C6_Witness ==
    /\ op = "Diff" /\ status = "err"
    /\ Has("NotFound", 1, "notify")
    /\ Has("GetRemote", 2, "err")
    /\ retErr = RetrieveErr(resources[2])

\* C7: Apply takes the resources in list order, one at a time; when it has
\* returned an error at resource k, every resource before k was added,
\* updated or found unchanged, and nothing was called for a resource after k.
C7_ApplyInOrder ==
    op = "Apply" =>
        /\ \A n \in 1 .. (Len(trace) - 1) : trace[n].idx <= trace[n + 1].idx
        /\ \A n \in Positions : trace[n].idx <= i
        /\ \A j \in 1 .. (i - 1) :
              \/ NotifiedAt(j) = {"Added"} /\ Has("Add", j, "ok")
              \/ NotifiedAt(j) = {"Updated"} /\ Has("Update", j, "ok")
              \/ NotifiedAt(j) = {"NoChanges"} /\ Count("Add", j) + Count("Update", j) = 0
        /\ status = "err" =>
              /\ i <= Len(resources)
              /\ \A n \in Positions : trace[n].fn \in {"GetRemote", "Add", "Update"}
                                         => trace[n].idx <= i

\* C7 witness: Apply returned an error at the second resource after it had
\* updated the first.
C7_Witness ==
    /\ op = "Apply" /\ status = "err" /\ i = 2
    /\ NotifiedAt(1) = {"Updated"}

\* C8 (as claimed): a one-shot operation that has stopped because a step
\* failed has returned a non-nil error.
C8_FailFast ==
    (/\ op \in {"Diff", "Apply", "Preview"}
     /\ status # "running"
     /\ Len(trace) > 0
     /\ trace[Len(trace)].res = "err") =>
        status = "err"

\* C5: Get and Listen resolve a UID with exactly one dot into the text
\* before the dot (handler) and the text after it (id), a UID with exactly
\* two dots into the text before the second dot (handler) and the text after
\* it (id), and look that handler up first; any other number of dots returns
\* the invalid-UID error with no registry lookup and no remote call made.
DotPositions(s) == {p \in 1 .. Len(s) : s[p] = "."}
LastDot(s) == CHOOSE p \in DotPositions(s) : \A q \in DotPositions(s) : q <= p
C5_UIDParsing ==
    op \in {"Get", "Listen"} =>
        IF Cardinality(DotPositions(uidArg)) \in {1, 2}
        THEN /\ target.ok
             /\ target.handlerName = SubSeq(uidArg, 1, LastDot(uidArg) - 1)
             /\ target.resourceID = SubSeq(uidArg, LastDot(uidArg) + 1, Len(uidArg))
             /\ Len(trace) > 0
             /\ trace[1].fn = "GetHandler"
             /\ trace[1].val = target.handlerName
             /\ retErr.code # "invalidUID"
             /\ \A n \in Positions :
                   trace[n].fn \in {"GetByUID", "NewSubscription"}
                       => trace[n].val = target.resourceID
        ELSE /\ ~target.ok
             /\ status = "err"
             /\ retErr.code = "invalidUID"
             /\ trace = <<>>

\* C5 witness: Get resolved the two-dot UID g.d.d to the handler g.d and the
\* id d, and printed the resource.
C5_Witness ==
    /\ op = "Get"
    /\ uidArg = <<"g", ".", "d", ".", "d">>
    /\ target.handlerName = DashboardName
    /\ target.resourceID = <<"d">>
    /\ status = "nil"

C10_OthersIgnored ==
    (/\ op = "OnPublish"
     /\ (trace[1].res = "err" \/ trace[1].val.action # "saved")) =>
        /\ ~Has("getRemoteDashboard", 0, "ok")
        /\ ~Has("getRemoteDashboard", 0, "notfound")
        /\ ~Has("getRemoteDashboard", 0, "err")
        /\ ~Has("WriteFile", 0, "ok")
        /\ status = "listening"

\* C11 (as claimed): a parse of an input in which every document decodes
\* into a manifest, when it returned without error, has looked up the
\* handler of every manifest successfully and returns one resource for
\* each of them; a parse in which a handler lookup or a handler's Parse
\* failed has returned an error and no resources.
C11_AllOrNothing ==
    (op = "Parse" /\ \A n \in 1 .. Len(input.manifests) : input.manifests[n] # Garbage) =>
        /\ (\E n \in Positions : trace[n].fn \in {"GetHandler", "Parse"} /\ trace[n].res = "err")
              => (status = "err" /\ resources = <<>>)
        /\ status = "nil" =>
              /\ Len(resources) = Len(input.manifests)
              /\ \A j \in 1 .. Len(input.manifests) :
                    /\ Has("GetHandler", j, "ok")
                    /\ Has("Parse", j, "ok")
                    /\ Key(resources[j]) = <<input.manifests[j].kind, input.manifests[j].uid>>

\* Reading wlog: the event at position n carries the operation c.
Carries(n, c) == \E S \in OpSets : c \in S /\ Mask(S) = wlog[n].op
\* What the goroutine received or ran at position n of wlog went wrong.
Failed(n) ==
    \/ wlog[n].kind = "error"
    \/ wlog[n].kind = "cycle" /\ (wlog[n].parse = "err" \/ wlog[n].apply = "err")

\* C12: the goroutine of Watch returns only when a channel of the watcher
\* was closed: while Watch is blocked and the channels are open it is at
\* its select or in a cycle, also after a cycle whose parse or Apply
\* failed and after an error from the error channel; and a write event
\* received after such a failure has started a cycle again.
C12_WatchSurvives ==
    /\ loop = "exited" => closed
    /\ (watch = "blocked" /\ ~closed) => loop \in {"select", "cycle"}
    /\ \A n \in 1 .. Len(wlog) : \A m \in (n + 1) .. Len(wlog) :
          (Failed(n) /\ wlog[m].kind = "event" /\ Carries(m, "write")) =>
              /\ m < Len(wlog)
              /\ wlog[m + 1].kind = "cycle"

\* C12 witness: a cycle whose Apply returned an error was followed by a
\* write event that ran another cycle to its end.
C12_Witness ==
    \E n \in 1 .. Len(wlog) : \E m \in (n + 1) .. Len(wlog) :
        /\ wlog[n].kind = "cycle" /\ wlog[n].apply = "err"
        /\ wlog[m].kind = "cycle" /\ wlog[m].apply = "nil"
        /\ loop = "select"

\* C13: every event the goroutine received that carries the write
\* operation is followed by exactly one cycle - one parse of the source and
\* then Apply over the list that parse returned (no resources when it
\* failed) - and an event without the write operation, or an error, is
\* followed by none; no cycle runs without such an event before it.
C13_WriteTriggersOneCycle ==
    /\ \A n \in 1 .. Len(wlog) :
          /\ (wlog[n].kind = "event" /\ Carries(n, "write")) =>
                /\ n < Len(wlog)
                /\ wlog[n + 1].kind = "cycle"
          /\ (wlog[n].kind # "cycle" /\ ~Carries(n, "write")) =>
                (n < Len(wlog) => wlog[n + 1].kind # "cycle")
          /\ wlog[n].kind = "cycle" =>
                /\ n > 1
                /\ wlog[n - 1].kind = "event" /\ Carries(n - 1, "write")
                /\ IF wlog[n].parse = "err" THEN wlog[n].list = <<>>
                   ELSE wlog[n].parse = "ok" /\ wlog[n].list \in WatchSources
    /\ loop = "cycle" =>
          /\ wlog[Len(wlog)].kind = "cycle"
          /\ op = "Apply"
          /\ resources = wlog[Len(wlog)].list

\* C13 witness: an event carrying write and chmod ran a cycle over two
\* resources, and a chmod-only event after it ran none.
C13_Witness ==
    /\ Len(wlog) = 3
    /\ wlog[1].kind = "event" /\ wlog[1].op = Write + Chmod
    /\ wlog[2].kind = "cycle" /\ Len(wlog[2].list) = 2 /\ wlog[2].apply = "nil"
    /\ wlog[3].kind = "event" /\ wlog[3].op = Chmod
    /\ loop = "select"

\* C19: once Watch blocks on its done channel it stays there in every step,
\* also the step in which the goroutine returns because a channel was
\* closed; and once the goroutine has returned, nothing is received and no
\* cycle runs any more.
C19_WatchNeverReturns ==
    [][/\ watch = "blocked" => watch' = "blocked"
       /\ loop = "exited" =>
             /\ loop' = "exited"
             /\ wlog' = wlog
             /\ remote' = remote
             /\ op' = op]_vars

\* C19 witness: the goroutine has returned after it handled an event, and
\* Watch is still blocked.
C19_Witness ==
    /\ watch = "blocked"
    /\ loop = "exited"
    /\ closed
    /\ Len(wlog) > 0

\* C14: in Preview, NotSupported for a resource is the last thing the
\* command does: it returns at that resource, which is the first one of the
\* list whose handler cannot preview; nothing is called for a later
\* resource, no snapshot is posted for this one, and every resource before
\* it has its snapshot posted and reported. A resource with a registered
\* handler that cannot preview is never passed without NotSupported.
C14_PreviewStops ==
    op = "Preview" =>
        /\ \A n \in Positions :
              trace[n].fn = "NotSupported" =>
                  LET j == trace[n].idx IN
                  /\ n = Len(trace)
                  /\ status = "nil"
                  /\ i = j
                  /\ \A m \in Positions : trace[m].idx <= j
                  /\ Count("postSnapshot", j) = 0
                  /\ resources[j].kind \in DOMAIN Registry
                  /\ ~IsPreviewHandler(Registry[resources[j].kind])
                  /\ \A k \in 1 .. (j - 1) :
                        /\ IsPreviewHandler(Registry[resources[k].kind])
                        /\ Has("postSnapshot", k, "ok")
                        /\ Has("Info", k, "notify")
        /\ \A j \in 1 .. Len(resources) :
              (/\ j < i \/ (j = i /\ status # "running")
               /\ resources[j].kind \in DOMAIN Registry
               /\ ~IsPreviewHandler(Registry[resources[j].kind])) =>
                  (j = i /\ Has("NotSupported", j, "notify"))

\* C14 witness: Preview stopped with NotSupported at the first resource and
\* did nothing for the dashboard after it.
C14_Witness ==
    /\ op = "Preview" /\ status = "nil"
    /\ Len(resources) = 2
    /\ resources[2].kind = DashboardName
    /\ Has("NotSupported", 1, "notify")
    /\ \A n \in Positions : trace[n].idx = 1

\* C15 (as claimed): in Export, a resource whose file exists and holds
\* exactly its representation gets NoChanges and no write; any other
\* resource has its representation written to <Kind>/<uid>.<extension>,
\* with Added when the file did not exist and Updated when it did. And an
\* Export that follows an Export of the same resources that returned nil,
\* with nobody else touching the directory in between, writes no file and
\* emits nothing but NoChanges.
C15_ExportSkipsIdentical ==
    op = "Export" =>
        /\ \A n \in Positions :
              (trace[n].fn = "ReadFile" /\ trace[n].res # "err") =>
                  LET j == trace[n].idx
                      rep == YAML(resources[j])
                  IN  /\ trace[n].val.path =
                            <<resources[j].kind, resources[j].uid,
                              GetExtension(Registry[resources[j].kind])>>
                      /\ IF trace[n].res = "ok" /\ trace[n].val.content = rep
                         THEN /\ NotifiedAt(j) = {"NoChanges"}
                              /\ Count("WriteFile", j) = 0
                         ELSE /\ Count("WriteFile", j) = 1
                              /\ Has("WriteFile", j, "ok") =>
                                    NotifiedAt(j) = {IF trace[n].res = "notfound"
                                                     THEN "Added" ELSE "Updated"}
                              /\ Has("WriteFile", j, "err") =>
                                    (NotifiedAt(j) = {} /\ status = "err")
        /\ (prev.op = "Export" /\ prev.status = "nil" /\ ~dirty) =>
              \A n \in Positions :
                  /\ trace[n].fn # "WriteFile"
                  /\ trace[n].res = "notify" => trace[n].fn = "NoChanges"

\* The names under which the batch given to ParseHiddenElements holds a
\* dashboard without uid.
Offending ==
    {k \in DOMAIN input.i.value : input.i.value[k].uid = <<>>}

\* C16 (as claimed): a missing-UID error returned for a batch lists every
\* resource of the batch that lacks a UID: as many names as there are such
\* resources, each the source name or the title of one of them.
C16_AllMissingUIDsListed ==
    (op = "ParseHiddenElements" /\ retErr.code = "uidsMissing") =>
        /\ Len(retErr.names) = Cardinality(Offending)
        /\ \A n \in 1 .. Len(retErr.names) :
              \E k \in Offending :
                  retErr.names[n] \in {k, input.i.value[k].title, NoTitle}

\* C17 (as claimed): no two resources of a list that Parse returned have the
\* same kind and uid.
C17_KeysUnique ==
    (op = "Parse" /\ status = "nil") =>
        \A a, b \in 1 .. Len(resources) :
            a # b => Key(resources[a]) # Key(resources[b])

\* What Apply does for resources[j] when it has compared it with the remote
\* resource `existing`, given the local representation `rep` that takes
\* part in the comparison: NoChanges and no Update when rep equals the
\* representation of Unprepare(existing), else one Update, called with the
\* prepared local resource, and Updated when it succeeds.
DecidedBy(j, existing, rep) ==
    LET h == Registry[resources[j].kind]
        prepared == Prepare(h, existing, resources[j])
    IN  IF rep = YAML(Unprepare(h, existing))
        THEN /\ NotifiedAt(j) = {"NoChanges"}
             /\ Count("Update", j) = 0
        ELSE /\ Count("Update", j) = 1
             /\ \E n \in Positions :
                   /\ trace[n].fn = "Update" /\ trace[n].idx = j
                   /\ trace[n].val = prepared.spec
                   /\ trace[n].res = "ok" => NotifiedAt(j) = {"Updated"}
                   /\ trace[n].res = "err" => NotifiedAt(j) = {}

\* C18 (as amended): when Apply finds the remote resource present, the test
\* that decides between NoChanges and Update compares the representation
\* of the local resource as declared, taken before Prepare, with the
\* representation of Unprepare(existing); the fields Prepare merges in
\* take no part in the comparison and go only into the resource handed to
\* Update.
C18_ComparesDeclared ==
    op = "Apply" =>
        \A n \in Positions :
            (trace[n].fn = "GetRemote" /\ trace[n].res = "ok"
                /\ Has("Compare", trace[n].idx, "ok")) =>
                DecidedBy(trace[n].idx, FetchedAt(n), YAML(resources[trace[n].idx]))

\* C18 witness: Apply found a remote resource with a server-assigned field
\* and another body, and called Update with the local resource into which
\* Prepare had merged that field.
C18_Witness ==
    /\ op = "Apply"
    /\ \E n \in Positions : \E m \in Positions :
          /\ trace[n].fn = "GetRemote" /\ trace[n].res = "ok" /\ trace[n].val.id = 1
          /\ trace[m].fn = "Update" /\ trace[m].idx = trace[n].idx
          /\ trace[m].res = "ok" /\ trace[m].val.id = 1
          /\ trace[m].val.body # trace[n].val.body

\* C18 (as claimed): the comparison takes the representation of the local
\* resource after Prepare(existing, resource).
C18_ComparesPrepared ==
    op = "Apply" =>
        \A n \in Positions :
            (trace[n].fn = "GetRemote" /\ trace[n].res = "ok"
                /\ Has("Compare", trace[n].idx, "ok")) =>
                DecidedBy(trace[n].idx, FetchedAt(n),
                          YAML(Prepare(Registry[resources[trace[n].idx].kind],
                                       FetchedAt(n), resources[trace[n].idx])))

\* The file holds the serialization of the remote state of the dashboard
\* Listen subscribed to.
Reflects ==
    IF sub \in ResourceIDs
    THEN file = toJSON(sub, remote[<<DashboardName, sub>>])
    ELSE FALSE

\* The step handled a "saved" notification for the subscribed dashboard.
SavedHandled ==
    /\ op' = "OnPublish"
    /\ trace'[1].res = "ok"
    /\ trace'[1].val.action = "saved"
    /\ trace'[1].val.uid = sub

\* C20 (as claimed): while Listen runs, a step in which the transport
\* connects, disconnects, reconnects or (re)subscribes makes no call and
\* leaves the file alone, and the file comes to hold the remote state of
\* the subscribed dashboard only in a step that handles a "saved"
\* notification for that dashboard.
C20_NoResync ==
    [][status = "listening" =>
          /\ conn' # conn => (file' = file /\ trace' = trace)
          /\ (file' # file /\ Reflects') => SavedHandled]_vars

\* The cycles of wlog whose Apply has not returned.
Running == {n \in 1 .. Len(wlog) : wlog[n].kind = "cycle" /\ wlog[n].apply = "running"}

\* C21: under Watch at most one cycle is unfinished at any time and it is
\* the last thing the goroutine did, so every cycle has run to its end
\* before the next event or error is received, however many events wait in
\* the channel; the calls in progress are those of that one Apply run,
\* which goes through its resources in order and fetches each at most
\* once; and while a cycle runs no step receives anything.
C21_CyclesNeverOverlap ==
    [][watch' = "blocked" =>
          /\ Cardinality(Running') <= 1
          /\ Running' \subseteq {Len(wlog')}
          /\ (loop' = "cycle") = (Running' # {})
          /\ status' = "running" => loop' = "cycle"
          /\ \A n \in 1 .. Len(trace') : \A m \in n .. Len(trace') :
                trace'[n].idx <= trace'[m].idx
          /\ \A j \in 1 .. Len(resources') : Count("GetRemote", j)' <= 1
          /\ loop = "cycle" => (Arrived' = Arrived /\ Len(wlog') = Len(wlog))]_vars

\* C21 witness: an Apply run of a cycle is midway through its two
\* resources while the next write event waits in the channel.
C21_Witness ==
    /\ loop = "cycle"
    /\ status = "running"
    /\ Len(resources) = 2
    /\ i = 2
    /\ Has("GetRemote", 1, "ok")
    /\ events # <<>>
    /\ HasWrite(events[1])

\* C22: a Diff run calls neither Add nor Update, whatever the remote fetch
\* of a resource returns - GetRemote is its only call of the remote - and
\* no step of the run changes the remote state.
C22_DiffReadOnly ==
    [][/\ op' = "Diff" =>
             \A n \in 1 .. Len(trace') :
                 \/ trace'[n].res = "notify"
                 \/ trace'[n].fn \in {"GetHandler", "YAML", "Unprepare", "GetRemote", "Compare"}
       /\ (op = "Diff" /\ status = "running" /\ trace' # trace) => remote' = remote]_vars

\* C22 witness: a Diff run over two resources has ended, one not found at
\* the remote and one found with changes, and the remote still lacks the
\* first and still differs from the second.
C22_Witness ==
    /\ op = "Diff"
    /\ status = "nil"
    /\ ~dirty
    /\ Len(resources) = 2
    /\ NotifiedAt(1) = {"NotFound"}
    /\ NotifiedAt(2) = {"HasChanges"}
    /\ remote[Key(resources[1])] = Absent
    /\ remote[Key(resources[2])] \notin {Absent, resources[2].spec}

\* C23 (as claimed): whenever the publish handler of a Listen that was
\* started with the id of a dashboard has written the file, the payload named the id Listen subscribed for and
\* the data written is the serialization of the remote state fetched for
\* that id; a payload with another uid, or none, leaves the file alone.
C23_WritesSubscribed ==
    (op = "OnPublish" /\ sub \in ResourceIDs) =>
        \A n \in Positions :
            trace[n].fn = "WriteFile" =>
                /\ trace[1].val.uid = sub
                /\ \E m \in Positions :
                      /\ trace[m].fn = "getRemoteDashboard"
                      /\ trace[m].res = "ok"
                      /\ trace[n].val = toJSON(sub, trace[m].val)
                /\ file = trace[n].val

====
